---- MODULE Spec2Model ----
(***************************************************************************)
(* Model of the querykit SQL statement constructor:                        *)
(*   querykit/core/query_components.py  clause components and to_sql       *)
(*   querykit/core/query_strategy.py    StandardQueryStrategy.build_query  *)
(*   querykit/core/sql_query.py         SQLQuery, Subquery                 *)
(*   querykit/core/query_builder.py     QueryBuilder                       *)
(* and of the execution of a statement against a database:                 *)
(*   querykit.py                        DBExecutionStrategy (connects and  *)
(*                                      disconnects around each call)      *)
(*   querykit/core/execution_strategy.py  DBExecutionStrategy (the caller  *)
(*                                      owns the connection)               *)
(*   querykit/core/db_interface.py      SQLiteInterface                    *)
(*                                                                         *)
(* Texts are TLA+ strings, so that rendering is real concatenation.  A     *)
(* call either returns a value or raises: both outcomes are records        *)
(* [exc, val], with exc = "None" for a normal return.                      *)
(***************************************************************************)
EXTENDS Integers, Sequences, FiniteSets, TLC

VARIABLES
    stmts,   \* the SQLQuery objects: identity -> attributes
    last,    \* the last call that produced an outcome: [op, target, result, prev]
    ops,     \* number of calls made so far
    live,    \* history: the pairs <<outer, inner>> for which the caller has
             \* appended a Subquery(inner) component to outer
    run,     \* the execute() call of a DBExecutionStrategy and the calls it
             \* has made on its db_interface
    conn     \* a SQLiteInterface: its connection and its execute_query call

vars == <<stmts, last, ops, live, run, conn>>

(***************************************************************************)
(* Bounds and the inputs the calls are tried with.                         *)
(***************************************************************************)
MaxOps == 3

\* SQLQuery objects by identity.  q1 is the statement the builder b1 wraps;
\* q2 and q3 are created directly with SQLQuery(strategy), as the subqueries
\* of tests/test_query_builder.py are.
Stmt == {"q1", "q2", "q3"}
Builder == {"b1"}

\* Two StandardQueryStrategy instances, as in main.py.
Strategy == {"subquery_strategy", "main_strategy"}

\* set_select is tried with ['*'] and the builder's select with
\* ['name', 'age'], the values of tests/test_query_builder.py.
Columns == {<<"*">>}
BuilderColumns == {<<"name", "age">>}
Tables == {"users"}
Conditions == {"age > 30"}
Aliases == {"sub_alias"}

(***************************************************************************)
(* Outcomes of a call.                                                     *)
(***************************************************************************)
Return(v) == [exc |-> "None", val |-> v]
Raise(e, msg) == [exc |-> e, val |-> msg]
Raised(r) == r.exc # "None"

(***************************************************************************)
(* Clause components (query_components.py, sql_query.py:77-89).            *)
(***************************************************************************)
None == [kind |-> "None"]
Select(columns) == [kind |-> "Select", columns |-> columns]
From(table) == [kind |-> "From", table |-> table]
Where(condition) == [kind |-> "Where", condition |-> condition]
OrderBy(columns, order) == [kind |-> "OrderBy", columns |-> columns, order |-> order]
Join(table, condition) == [kind |-> "Join", table |-> table, condition |-> condition]
GroupBy(columns) == [kind |-> "GroupBy", columns |-> columns]
Update(table) == [kind |-> "Update", table |-> table]
Set(updates) == [kind |-> "Set", updates |-> updates]
Delete(table) == [kind |-> "Delete", table |-> table]
Limit(limit, offset) == [kind |-> "Limit", limit |-> limit, offset |-> offset]
Insert(table, columns, values) ==
    [kind |-> "Insert", table |-> table, columns |-> columns, values |-> values]
Subquery(query) == [kind |-> "Subquery", query |-> query]

\* isinstance(c, K)
isinstance(c, K) == c.kind = K

\* Python truth value of an attribute that is None or a component object
\* (the component classes define neither __bool__ nor __len__).
Truthy(c) == c.kind # "None"

\* Limit's offset: None or an int
NoOffset == -1

(***************************************************************************)
(* String helpers: sep.join(seq), str(int), f"'{v}'".                      *)
(***************************************************************************)
RECURSIVE str_join(_, _)
str_join(sep, seq) ==
    IF Len(seq) = 0 THEN ""
    ELSE IF Len(seq) = 1 THEN seq[1]
    ELSE seq[1] \o sep \o str_join(sep, Tail(seq))

Digits == <<"0", "1", "2", "3", "4", "5", "6", "7", "8", "9">>

RECURSIVE str_int(_)
str_int(n) ==
    IF n < 0 THEN "-" \o str_int(0 - n)
    ELSE IF n < 10 THEN Digits[n + 1]
    ELSE str_int(n \div 10) \o Digits[(n % 10) + 1]

quoted(values) == [i \in 1..Len(values) |-> "'" \o values[i] \o "'"]

(***************************************************************************)
(* SQLQuery.validate, SQLQuery.parse, Subquery.to_sql, the components'     *)
(* to_sql and StandardQueryStrategy.build_query.  S is the object store.   *)
(***************************************************************************)
RECURSIVE validate(_, _)
RECURSIVE validate_subqueries(_, _, _)
RECURSIVE parse(_, _)
RECURSIVE Subquery_to_sql(_, _)
RECURSIVE build_query(_, _, _)

SelectRequiresFrom == "SELECT query requires a FROM clause."
UpdateRequiresSet == "UPDATE query requires a SET clause."
DeleteWithFrom == "DELETE query should not have a FROM clause explicitly."

\* any(isinstance(c, K) for c in components)
any_isinstance(components, K) ==
    \E i \in 1..Len(components) : isinstance(components[i], K)

\* Mutant: the subqueries are not validated (validate of the first revision,
\* querykit.py:205-214, has no such loop).
validate_subqueries_skipped(S, components, i) == Return("")

\* sql_query.py:56-58: the loop over the components, from position i on
validate_subqueries(S, components, i) ==
    IF i > Len(components) THEN Return("")
    ELSE IF isinstance(components[i], "Subquery")
    THEN LET r == validate(S, components[i].query) IN
         IF Raised(r) THEN r ELSE validate_subqueries(S, components, i + 1)
    ELSE validate_subqueries(S, components, i + 1)

\* Mutant: the SELECT/FROM check is missing.
validate_SelectUnchecked(S, q) ==
    LET self == S[q] IN
    IF any_isinstance(self.components, "Update")
       /\ ~any_isinstance(self.components, "Set")
    THEN Raise("ValueError", UpdateRequiresSet)
    ELSE IF any_isinstance(self.components, "Delete") /\ Truthy(self.from_component)
    THEN Raise("ValueError", DeleteWithFrom)
    ELSE validate_subqueries(S, self.components, 1)

\* Mutant: the Set is looked for only after an Update.
validate_SetAfterUpdate(S, q) ==
    LET self == S[q]
        n == Len(self.components) IN
    IF Truthy(self.select_component) /\ ~Truthy(self.from_component)
    THEN Raise("ValueError", SelectRequiresFrom)
    ELSE IF \E i \in 1..n :
               /\ isinstance(self.components[i], "Update")
               /\ ~\E j \in (i + 1)..n : isinstance(self.components[j], "Set")
    THEN Raise("ValueError", UpdateRequiresSet)
    ELSE IF any_isinstance(self.components, "Delete") /\ Truthy(self.from_component)
    THEN Raise("ValueError", DeleteWithFrom)
    ELSE validate_subqueries(S, self.components, 1)

\* Mutant: the DELETE/FROM check is missing.
validate_DeleteUnchecked(S, q) ==
    LET self == S[q] IN
    IF Truthy(self.select_component) /\ ~Truthy(self.from_component)
    THEN Raise("ValueError", SelectRequiresFrom)
    ELSE IF any_isinstance(self.components, "Update")
            /\ ~any_isinstance(self.components, "Set")
    THEN Raise("ValueError", UpdateRequiresSet)
    ELSE validate_subqueries(S, self.components, 1)

validate(S, q) ==
    LET self == S[q] IN
    IF Truthy(self.select_component) /\ ~Truthy(self.from_component)
    THEN Raise("ValueError", SelectRequiresFrom)
    ELSE IF any_isinstance(self.components, "Update")
            /\ ~any_isinstance(self.components, "Set")
    THEN Raise("ValueError", UpdateRequiresSet)
    ELSE IF any_isinstance(self.components, "Delete") /\ Truthy(self.from_component)
    THEN Raise("ValueError", DeleteWithFrom)
    ELSE validate_subqueries(S, self.components, 1)

\* Mutant: the From slot is placed before the Select slot.
full_components_FromFirst(self) ==
    (IF Truthy(self.from_component) THEN <<self.from_component>> ELSE <<>>)
    \o (IF Truthy(self.select_component) THEN <<self.select_component>> ELSE <<>>)
    \o self.components

\* sql_query.py:66-71
full_components(self) ==
    (IF Truthy(self.select_component) THEN <<self.select_component>> ELSE <<>>)
    \o (IF Truthy(self.from_component) THEN <<self.from_component>> ELSE <<>>)
    \o self.components

\* to_sql of the components of query_components.py
component_to_sql(c) ==
    CASE c.kind = "Select" -> "SELECT " \o str_join(", ", c.columns)
      [] c.kind = "From" -> "FROM " \o c.table
      [] c.kind = "Where" -> "WHERE " \o c.condition
      [] c.kind = "OrderBy" ->
            "ORDER BY " \o str_join(", ", c.columns) \o " " \o c.order
      [] c.kind = "Join" -> "JOIN " \o c.table \o " ON " \o c.condition
      [] c.kind = "GroupBy" -> "GROUP BY " \o str_join(", ", c.columns)
      [] c.kind = "Update" -> "UPDATE " \o c.table
      [] c.kind = "Set" -> "SET " \o str_join(", ", c.updates)
      [] c.kind = "Delete" -> "DELETE FROM " \o c.table
      [] c.kind = "Limit" ->
            IF c.offset # NoOffset
            THEN "LIMIT " \o str_int(c.limit) \o " OFFSET " \o str_int(c.offset)
            ELSE "LIMIT " \o str_int(c.limit)
      [] c.kind = "Insert" ->
            "INSERT INTO " \o c.table \o " (" \o str_join(", ", c.columns)
            \o ") VALUES (" \o str_join(", ", quoted(c.values)) \o ")"

\* Mutant: the inner text is embedded without the parentheses.
Subquery_to_sql_bare(S, c) == parse(S, c.query)

\* Subquery.to_sql: f"({self.query.parse()})"
Subquery_to_sql(S, c) ==
    LET r == parse(S, c.query) IN
    IF Raised(r) THEN r ELSE Return("(" \o r.val \o ")")

\* component.to_sql(), dispatched on the component's class
to_sql(S, c) ==
    IF isinstance(c, "Subquery") THEN Subquery_to_sql(S, c)
    ELSE Return(component_to_sql(c))

\* " ".join(component.to_sql() for component in components): the fragments
\* are produced in order, the first to_sql that raises ends the call.
build_query(S, components, i) ==
    IF i > Len(components) THEN Return("")
    ELSE LET r == to_sql(S, components[i]) IN
         IF Raised(r) THEN r
         ELSE LET rest == build_query(S, components, i + 1) IN
              IF Raised(rest) THEN rest
              ELSE IF i = Len(components) THEN r
              ELSE Return(r.val \o " " \o rest.val)

\* Mutant: parse does not call validate.
parse_unvalidated(S, q) == build_query(S, full_components(S[q]), 1)

parse(S, q) ==
    LET v == validate(S, q) IN
    IF Raised(v) THEN v
    ELSE build_query(S, full_components(S[q]), 1)

(***************************************************************************)
(* The mutators of SQLQuery, as functions from store to store.             *)
(***************************************************************************)
set_select(S, q, columns) == [S EXCEPT ![q].select_component = Select(columns)]

set_from(S, q, table) == [S EXCEPT ![q].from_component = From(table)]

\* Mutant: the new component goes to the front of the list.
add_component_front(S, q, component) ==
    [S EXCEPT ![q].components = <<component>> \o @]

add_component(S, q, component) ==
    [S EXCEPT ![q].components = Append(@, component)]

set_strategy(S, q, strategy) == [S EXCEPT ![q].strategy = strategy]

(***************************************************************************)
(* QueryBuilder.  query[b] is the SQLQuery the builder created.            *)
(***************************************************************************)
query == [b \in Builder |-> "q1"]

select(S, b, columns) == set_select(S, query[b], columns)
from_table(S, b, table) == set_from(S, query[b], table)
where(S, b, condition) == add_component(S, query[b], Where(condition))
group_by(S, b, columns) == add_component(S, query[b], GroupBy(columns))
order_by(S, b, columns, order) == add_component(S, query[b], OrderBy(columns, order))
join(S, b, table, condition) == add_component(S, query[b], Join(table, condition))
delete(S, b, table) == add_component(S, query[b], Delete(table))

\* Mutant: the builder keeps a live Subquery component for a statement other
\* than its own instead of the text rendered at call time.
select_with_subquery_live(S, b, subquery, alias) ==
    LET r == Subquery_to_sql(S, Subquery(subquery)) IN
    IF Raised(r) THEN [result |-> r, store |-> S]
    ELSE IF subquery = query[b]
    THEN [result |-> Return(""),
          store |-> add_component(S, query[b], Select(<<r.val \o " AS " \o alias>>))]
    ELSE [result |-> Return(""),
          store |-> add_component(S, query[b], Subquery(subquery))]

\* Mutant: the subquery column is put into the Select slot instead of being
\* appended.
select_with_subquery_slot(S, b, subquery, alias) ==
    LET r == to_sql(S, Subquery(subquery)) IN
    IF Raised(r) THEN [result |-> r, store |-> S]
    ELSE [result |-> Return(""),
          store |-> set_select(S, query[b], <<r.val \o " AS " \o alias>>)]

\* The argument is evaluated first: when Subquery(subquery).to_sql() raises,
\* add_component is never called.
select_with_subquery(S, b, subquery, alias) ==
    LET r == to_sql(S, Subquery(subquery)) IN
    IF Raised(r) THEN [result |-> r, store |-> S]
    ELSE [result |-> Return(""),
          store |-> add_component(S, query[b], Select(<<r.val \o " AS " \o alias>>))]

\* Mutant: the derived table is appended as a From component and the From
\* slot is left alone.
from_with_subquery_appended(S, b, subquery, alias) ==
    LET r == parse(S, subquery) IN
    IF Raised(r) THEN [result |-> r, store |-> S]
    ELSE [result |-> Return(""),
          store |-> add_component(S, query[b],
                                  From("(" \o r.val \o ") AS " \o alias))]

\* Mutant: the From slot is replaced before the subquery has rendered.
from_with_subquery_early(S, b, subquery, alias) ==
    LET r == parse(S, subquery) IN
    IF Raised(r)
    THEN [result |-> r, store |-> set_from(S, query[b], "() AS " \o alias)]
    ELSE [result |-> Return(""),
          store |-> set_from(S, query[b], "(" \o r.val \o ") AS " \o alias)]

\* subquery.parse() is evaluated inside the argument of set_from: when it
\* raises, set_from is never called.
from_with_subquery(S, b, subquery, alias) ==
    LET r == parse(S, subquery) IN
    IF Raised(r) THEN [result |-> r, store |-> S]
    ELSE [result |-> Return(""),
          store |-> set_from(S, query[b], "(" \o r.val \o ") AS " \o alias)]

(***************************************************************************)
(* Subquery links between statements.                                      *)
(***************************************************************************)
Inner(S, q) ==
    {S[q].components[i].query :
        i \in {j \in 1..Len(S[q].components) : isinstance(S[q].components[j], "Subquery")}}

RECURSIVE ReachN(_, _, _)
ReachN(S, qs, n) ==
    IF n = 0 THEN qs
    ELSE ReachN(S, qs \cup UNION {Inner(S, q) : q \in qs}, n - 1)

\* the statements reached from q through one or more Subquery components
Below(S, q) == ReachN(S, Inner(S, q), Cardinality(Stmt))

(***************************************************************************)
(* Execution state.                                                        *)
(***************************************************************************)
\* No execute() call has been made on a DBExecutionStrategy.  trace is the
\* sequence of the calls execute() has made so far: the rendering of the
\* statement and the calls on db_interface, each with its outcome.
NoRun ==
    [variant |-> "none", pc |-> "idle", target |-> "none", params |-> <<>>,
     text |-> "", pending |-> Return(""), outcome |-> Return(""),
     trace |-> <<>>, connected |-> FALSE, executes |-> 0]

\* SQLiteInterface.__init__: no connection yet.  trace is the sequence of
\* driver calls of the current execute_query call.
NewSQLiteInterface ==
    [connection |-> "None", pc |-> "idle", query |-> "", params |-> <<>>,
     cursor |-> "none", pending |-> Return(""), outcome |-> Return(""),
     trace |-> <<>>, queries |-> 0]

(***************************************************************************)
(* Initial state and the calls.                                            *)
(***************************************************************************)
NoCall == [op |-> "none", target |-> "none", result |-> Return(""), prev |-> Return("")]
NoPrev == Raise("NoPrev", "")

\* SQLQuery.__init__
NewSQLQuery(strategy) ==
    [strategy |-> strategy, components |-> <<>>,
     select_component |-> None, from_component |-> None]

Init ==
    /\ stmts = [q \in Stmt |-> NewSQLQuery("main_strategy")]
    /\ last = NoCall
    /\ ops = 0
    /\ live = {}
    /\ run = NoRun
    /\ conn = NewSQLiteInterface

\* A mutator that returns nothing of interest (None, or the builder itself).
Mutate(S) ==
    /\ ops < MaxOps
    /\ stmts' = S
    /\ last' = NoCall
    /\ ops' = ops + 1
    /\ UNCHANGED <<run, conn>>

Outcome(op, q, r) ==
    [op |-> op, target |-> q, result |-> r,
     prev |-> IF last.op = op /\ last.target = q THEN last.result ELSE NoPrev]

SetSelect(q, columns) == Mutate(set_select(stmts, q, columns)) /\ UNCHANGED live
SetFrom(q, table) == Mutate(set_from(stmts, q, table)) /\ UNCHANGED live
SetStrategy(q, strategy) == Mutate(set_strategy(stmts, q, strategy)) /\ UNCHANGED live

\* Statements are built innermost first: a Subquery appended to q wraps a
\* statement later in this order, so no statement ever contains itself (on
\* a self-containing chain validate() recurses without end).
Order == [q \in Stmt |-> CASE q = "q1" -> 1 [] q = "q2" -> 2 [] q = "q3" -> 3]

\* The components a caller appends directly.
Appendable(q) ==
    {Where(c) : c \in Conditions}
    \cup {Update(t) : t \in Tables}
    \cup {Set(<<"name = 'John'">>)}
    \cup {Delete(t) : t \in Tables}
    \cup {Subquery(i) : i \in {i \in Stmt : Order[i] > Order[q]}}

AddComponent(q, component) ==
    /\ Mutate(add_component(stmts, q, component))
    /\ live' = IF isinstance(component, "Subquery")
               THEN live \cup {<<q, component.query>>} ELSE live

\* Mutant: validate drops the From slot it rejects next to a Delete.
CallValidate_repairing(q) ==
    /\ ops < MaxOps
    /\ stmts' = IF any_isinstance(stmts[q].components, "Delete")
                THEN [stmts EXCEPT ![q].from_component = None] ELSE stmts
    /\ last' = Outcome("validate", q, validate(stmts, q))
    /\ ops' = ops + 1
    /\ UNCHANGED <<live, run, conn>>

CallValidate(q) ==
    /\ ops < MaxOps
    /\ stmts' = stmts
    /\ last' = Outcome("validate", q, validate(stmts, q))
    /\ ops' = ops + 1
    /\ UNCHANGED <<live, run, conn>>

\* Mutant: full_components is the statement's own list, not a new one, so
\* the slots end up among the appended components.
CallParse_aliasing(q) ==
    /\ ops < MaxOps
    /\ stmts' = [stmts EXCEPT ![q].components = full_components(stmts[q])]
    /\ last' = Outcome("parse", q, parse(stmts, q))
    /\ ops' = ops + 1
    /\ UNCHANGED <<live, run, conn>>

CallParse(q) ==
    /\ ops < MaxOps
    /\ stmts' = stmts
    /\ last' = Outcome("parse", q, parse(stmts, q))
    /\ ops' = ops + 1
    /\ UNCHANGED <<live, run, conn>>

BuilderSelect(b, columns) == Mutate(select(stmts, b, columns)) /\ UNCHANGED live
BuilderFromTable(b, table) == Mutate(from_table(stmts, b, table)) /\ UNCHANGED live
BuilderWhere(b, condition) == Mutate(where(stmts, b, condition)) /\ UNCHANGED live
BuilderGroupBy(b, columns) == Mutate(group_by(stmts, b, columns)) /\ UNCHANGED live
BuilderOrderBy(b, columns, order) == Mutate(order_by(stmts, b, columns, order)) /\ UNCHANGED live
BuilderJoin(b, table, condition) == Mutate(join(stmts, b, table, condition)) /\ UNCHANGED live
BuilderDelete(b, table) == Mutate(delete(stmts, b, table)) /\ UNCHANGED live

BuilderSelectWithSubquery(b, subquery, alias) ==
    LET r == select_with_subquery(stmts, b, subquery, alias) IN
    /\ ops < MaxOps
    /\ stmts' = r.store
    /\ last' = Outcome("select_with_subquery", query[b], r.result)
    /\ ops' = ops + 1
    /\ UNCHANGED <<live, run, conn>>

BuilderFromWithSubquery(b, subquery, alias) ==
    LET r == from_with_subquery(stmts, b, subquery, alias) IN
    /\ ops < MaxOps
    /\ stmts' = r.store
    /\ last' = Outcome("from_with_subquery", query[b], r.result)
    /\ ops' = ops + 1
    /\ UNCHANGED <<live, run, conn>>

Next ==
    \/ \E q \in Stmt, columns \in Columns : SetSelect(q, columns)
    \/ \E q \in Stmt, table \in Tables : SetFrom(q, table)
    \/ \E q \in Stmt, strategy \in Strategy : SetStrategy(q, strategy)
    \/ \E q \in Stmt : \E component \in Appendable(q) : AddComponent(q, component)
    \/ \E q \in Stmt : CallValidate(q)
    \/ \E q \in Stmt : CallParse(q)
    \/ \E b \in Builder, columns \in BuilderColumns : BuilderSelect(b, columns)
    \/ \E b \in Builder, table \in Tables : BuilderFromTable(b, table)
    \/ \E b \in Builder, condition \in Conditions : BuilderWhere(b, condition)
    \/ \E b \in Builder : BuilderGroupBy(b, <<"age">>)
    \/ \E b \in Builder : BuilderOrderBy(b, <<"age">>, "DESC")
    \/ \E b \in Builder : BuilderJoin(b, "orders", "users.id = orders.user_id")
    \/ \E b \in Builder, table \in Tables : BuilderDelete(b, table)
    \/ \E b \in Builder, subquery \in Stmt, alias \in Aliases :
          BuilderSelectWithSubquery(b, subquery, alias)
    \/ \E b \in Builder, subquery \in Stmt, alias \in Aliases :
          BuilderFromWithSubquery(b, subquery, alias)

Spec == Init /\ [][Next]_vars

(***************************************************************************)
(* Rendering a statement again after it has changed.  Here last keeps the  *)
(* outcome of a parse() call while the statements change, marked as        *)
(* earlier, and the next parse() of the same statement records it as prev. *)
(***************************************************************************)
MaxRecheckOps == 4

\* A mutator called while the outcome of an earlier parse() is remembered.
Later(S) ==
    /\ ops < MaxRecheckOps
    /\ stmts' = S
    /\ last' = [last EXCEPT !.op = IF @ = "parse" THEN "earlier parse" ELSE @]
    /\ ops' = ops + 1
    /\ UNCHANGED <<run, conn>>

LaterSetSelect(q, columns) ==
    Later(set_select(stmts, q, columns)) /\ UNCHANGED live
LaterSetFrom(q, table) ==
    Later(set_from(stmts, q, table)) /\ UNCHANGED live
LaterAddComponent(q, component) ==
    Later(add_component(stmts, q, component)) /\ UNCHANGED live

\* the outcome of the last parse() of q, whatever was changed since
EarlierOutcome(q) ==
    IF last.target = q /\ last.op \in {"parse", "earlier parse"}
    THEN last.result ELSE NoPrev

\* Mutant: a statement whose parse() has raised keeps raising that error.
ParseAgain_sticky(q) ==
    /\ ops < MaxRecheckOps
    /\ stmts' = stmts
    /\ last' = [op |-> "parse", target |-> q,
                result |-> IF Raised(EarlierOutcome(q))
                              /\ EarlierOutcome(q) # NoPrev
                           THEN EarlierOutcome(q) ELSE parse(stmts, q),
                prev |-> EarlierOutcome(q)]
    /\ ops' = ops + 1
    /\ UNCHANGED <<live, run, conn>>

\* SQLQuery.parse: validate() runs on the attributes as they are now
ParseAgain(q) ==
    /\ ops < MaxRecheckOps
    /\ stmts' = stmts
    /\ last' = [op |-> "parse", target |-> q, result |-> parse(stmts, q),
                prev |-> EarlierOutcome(q)]
    /\ ops' = ops + 1
    /\ UNCHANGED <<live, run, conn>>

NextRecheck ==
    \/ \E q \in Stmt, columns \in Columns : LaterSetSelect(q, columns)
    \/ \E q \in Stmt, table \in Tables : LaterSetFrom(q, table)
    \/ \E q \in Stmt :
          \E component \in {c \in Appendable(q) : ~isinstance(c, "Subquery")} :
             LaterAddComponent(q, component)
    \/ \E q \in Stmt : ParseAgain(q)

SpecRecheck == Init /\ [][NextRecheck]_vars

(***************************************************************************)
(* Executing a statement with a DBExecutionStrategy.  Its db_interface is  *)
(* any DBInterface: whether connect() and execute_query() return or raise  *)
(* is up to the database, so both outcomes are tried.                      *)
(***************************************************************************)
MaxExecutes == 3

\* the params of cursor.execute: none, or one value for a placeholder
Params == {<<>>, <<"Alice">>}

\* what db_interface.execute_query comes back with
QueryResults == {Return("rows"), Raise("RuntimeError", "Error executing query")}

\* querykit.py SQLQuery.validate: the three checks of the statement itself
legacy_validate(S, q) ==
    LET self == S[q] IN
    IF Truthy(self.select_component) /\ ~Truthy(self.from_component)
    THEN Raise("ValueError", SelectRequiresFrom)
    ELSE IF any_isinstance(self.components, "Update")
            /\ ~any_isinstance(self.components, "Set")
    THEN Raise("ValueError", UpdateRequiresSet)
    ELSE IF any_isinstance(self.components, "Delete") /\ Truthy(self.from_component)
    THEN Raise("ValueError", DeleteWithFrom)
    ELSE Return("")

\* querykit.py SQLQuery.execute: validate, then render
legacy_execute(S, q) ==
    LET v == legacy_validate(S, q) IN
    IF Raised(v) THEN v
    ELSE build_query(S, full_components(S[q]), 1)

\* one call made by execute(), with its outcome
Event(call, sql, params, result) ==
    [call |-> call, query |-> sql, params |-> params, result |-> result]

\* The statements handed to execute(): q1 is SELECT * FROM users, q2 has a
\* Select and no From, q3 is DELETE FROM users.
ExecStore ==
    LET new == [q \in Stmt |-> NewSQLQuery("main_strategy")] IN
    add_component(
        set_select(set_from(set_select(new, "q1", <<"*">>), "q1", "users"),
                   "q2", <<"*">>),
        "q3", Delete("users"))

InitExec ==
    /\ stmts = ExecStore
    /\ last = NoCall
    /\ ops = 0
    /\ live = {}
    /\ run = NoRun
    /\ conn = NewSQLiteInterface

\* no execute() call is in progress
Idle == run.pc \in {"idle", "done"}

\* The caller opens and closes the connection of the db_interface itself.
Connect ==
    /\ Idle
    /\ run' = [run EXCEPT !.connected = TRUE]
    /\ UNCHANGED <<stmts, last, ops, live, conn>>

Disconnect ==
    /\ Idle
    /\ run' = [run EXCEPT !.connected = FALSE]
    /\ UNCHANGED <<stmts, last, ops, live, conn>>

\* querykit.py DBExecutionStrategy.execute, first statement: connect() is
\* called before the try block is entered.
SimpleExecuteConnect(q, returns) ==
    LET result == IF returns THEN Return("")
                  ELSE Raise("ConnectionError", "connect") IN
    /\ Idle
    /\ run.executes < MaxExecutes
    /\ run' = [variant |-> "simple",
               pc |-> IF returns THEN "try" ELSE "done",
               target |-> q, params |-> <<>>, text |-> "",
               pending |-> result, outcome |-> result,
               trace |-> <<Event("connect", "", <<>>, result)>>,
               connected |-> IF returns THEN TRUE ELSE run.connected,
               executes |-> run.executes + 1]
    /\ UNCHANGED <<stmts, last, ops, live, conn>>

\* query_string = query.execute()
SimpleExecuteRender ==
    LET r == legacy_execute(stmts, run.target) IN
    /\ run.variant = "simple"
    /\ run.pc = "try"
    /\ run' = [run EXCEPT !.trace = Append(@, Event("render", "", <<>>, r)),
                          !.text = IF Raised(r) THEN "" ELSE r.val,
                          !.pending = r,
                          !.pc = IF Raised(r) THEN "finally" ELSE "rendered"]
    /\ UNCHANGED <<stmts, last, ops, live, conn>>

\* results = self.db_interface.execute_query(query_string)
SimpleExecuteQuery(result) ==
    /\ run.variant = "simple"
    /\ run.pc = "rendered"
    /\ run' = [run EXCEPT !.trace = Append(@, Event("execute_query", run.text,
                                                   <<>>, result)),
                          !.pending = result,
                          !.pc = "finally"]
    /\ UNCHANGED <<stmts, last, ops, live, conn>>

\* Mutant: disconnect() follows the try block instead of sitting in a
\* finally clause, so it is skipped when the block raises.
SimpleExecuteFinally_skipped ==
    /\ run.variant = "simple"
    /\ run.pc = "finally"
    /\ run' = IF Raised(run.pending)
              THEN [run EXCEPT !.outcome = run.pending, !.pc = "done"]
              ELSE [run EXCEPT !.trace = Append(@, Event("disconnect", "", <<>>,
                                                        Return(""))),
                               !.connected = FALSE,
                               !.outcome = run.pending,
                               !.pc = "done"]
    /\ UNCHANGED <<stmts, last, ops, live, conn>>

\* finally: self.db_interface.disconnect(); then the result is returned or
\* the exception of the try block goes on to the caller
SimpleExecuteFinally ==
    /\ run.variant = "simple"
    /\ run.pc = "finally"
    /\ run' = [run EXCEPT !.trace = Append(@, Event("disconnect", "", <<>>,
                                                   Return(""))),
                          !.connected = FALSE,
                          !.outcome = run.pending,
                          !.pc = "done"]
    /\ UNCHANGED <<stmts, last, ops, live, conn>>

\* querykit/core/execution_strategy.py DBExecutionStrategy.execute:
\* query_string = query.parse()
ExecuteParse(q, params) ==
    LET r == parse(stmts, q) IN
    /\ Idle
    /\ run.executes < MaxExecutes
    /\ run' = [variant |-> "refined",
               pc |-> IF Raised(r) THEN "done" ELSE "parsed",
               target |-> q, params |-> params,
               text |-> IF Raised(r) THEN "" ELSE r.val,
               pending |-> r, outcome |-> r,
               trace |-> <<Event("render", "", <<>>, r)>>,
               connected |-> run.connected,
               executes |-> run.executes + 1]
    /\ UNCHANGED <<stmts, last, ops, live, conn>>

\* Mutant: the params of the caller are not handed on.
ExecuteQuery_noparams(result) ==
    /\ run.variant = "refined"
    /\ run.pc = "parsed"
    /\ run' = [run EXCEPT !.trace = Append(@, Event("execute_query", run.text,
                                                   <<>>, result)),
                          !.pending = result,
                          !.outcome = result,
                          !.pc = "done"]
    /\ UNCHANGED <<stmts, last, ops, live, conn>>

\* return self.db_interface.execute_query(query_string, params)
ExecuteQuery(result) ==
    /\ run.variant = "refined"
    /\ run.pc = "parsed"
    /\ run' = [run EXCEPT !.trace = Append(@, Event("execute_query", run.text,
                                                   run.params, result)),
                          !.pending = result,
                          !.outcome = result,
                          !.pc = "done"]
    /\ UNCHANGED <<stmts, last, ops, live, conn>>

NextExec ==
    \/ Connect
    \/ Disconnect
    \/ \E q \in Stmt, returns \in BOOLEAN : SimpleExecuteConnect(q, returns)
    \/ SimpleExecuteRender
    \/ \E result \in QueryResults : SimpleExecuteQuery(result)
    \/ SimpleExecuteFinally
    \/ \E q \in Stmt, params \in Params : ExecuteParse(q, params)
    \/ \E result \in QueryResults : ExecuteQuery(result)

SpecExec == InitExec /\ [][NextExec]_vars

(***************************************************************************)
(* SQLiteInterface of querykit/core/db_interface.py.  The driver decides   *)
(* whether cursor.execute, cursor.fetchall and connection.rollback return  *)
(* or raise, so both outcomes are tried.                                   *)
(***************************************************************************)
MaxQueries == 2

SqlTexts ==
    {"SELECT * FROM users", "  select name from users", "DELETE FROM users"}

\* str.upper on the letters of SELECT; no other character can turn into one
\* of them, which is all that startswith("SELECT") looks at
upper_char(c) ==
    CASE c = "s" -> "S" [] c = "e" -> "E" [] c = "l" -> "L"
      [] c = "c" -> "C" [] c = "t" -> "T" [] OTHER -> c

RECURSIVE upper(_)
upper(s) ==
    IF s = "" THEN ""
    ELSE upper_char(SubSeq(s, 1, 1)) \o upper(SubSeq(s, 2, Len(s)))

\* str.strip for blanks
RECURSIVE lstrip(_)
lstrip(s) ==
    IF s # "" /\ SubSeq(s, 1, 1) = " " THEN lstrip(SubSeq(s, 2, Len(s))) ELSE s

RECURSIVE rstrip(_)
rstrip(s) ==
    IF s # "" /\ SubSeq(s, Len(s), Len(s)) = " "
    THEN rstrip(SubSeq(s, 1, Len(s) - 1)) ELSE s

strip(s) == rstrip(lstrip(s))

startswith(s, prefix) ==
    Len(s) >= Len(prefix) /\ SubSeq(s, 1, Len(prefix)) = prefix

\* query.strip().upper().startswith("SELECT")
IsSelect(sql) == startswith(upper(strip(sql)), "SELECT")

InitSQLite ==
    /\ stmts = [q \in Stmt |-> NewSQLQuery("main_strategy")]
    /\ last = NoCall
    /\ ops = 0
    /\ live = {}
    /\ run = NoRun
    /\ conn = NewSQLiteInterface

\* no execute_query call is in progress
NoQuery == conn.pc \in {"idle", "done"}

\* SQLiteInterface.connect: self.connection = sqlite3.connect(self.db_name)
SQLiteConnect ==
    /\ NoQuery
    /\ conn' = [conn EXCEPT !.connection = "open"]
    /\ UNCHANGED <<stmts, last, ops, live, run>>

\* SQLiteInterface.disconnect: the connection is closed and the attribute
\* keeps the closed connection object
SQLiteDisconnect ==
    /\ NoQuery
    /\ conn.connection # "None"
    /\ conn' = [conn EXCEPT !.connection = "closed"]
    /\ UNCHANGED <<stmts, last, ops, live, run>>

\* execute_query up to the try block: the assert, then connection.cursor(),
\* which raises on a connection that has been closed
ExecuteQueryCursor(sql, params) ==
    /\ NoQuery
    /\ conn.queries < MaxQueries
    /\ conn' =
         [conn EXCEPT
            !.query = sql, !.params = params,
            !.queries = @ + 1,
            !.trace = IF conn.connection = "open" THEN <<"cursor">> ELSE <<>>,
            !.cursor = IF conn.connection = "open" THEN "open" ELSE "none",
            !.pending = Return(""),
            !.outcome =
               CASE conn.connection = "None" ->
                      Raise("AssertionError", "Database connection not established.")
                 [] conn.connection = "closed" ->
                      Raise("ProgrammingError", "Cannot operate on a closed database.")
                 [] OTHER -> Return(""),
            !.pc = IF conn.connection = "open" THEN "execute" ELSE "done"]
    /\ UNCHANGED <<stmts, last, ops, live, run>>

\* cursor.execute(query, params)
CursorExecute(returns) ==
    /\ conn.pc = "execute"
    /\ conn' =
         [conn EXCEPT
            !.trace = Append(@, "execute"),
            !.pending = IF returns THEN Return("None")
                        ELSE Raise("sqlite3.Error", "execute"),
            !.pc = IF ~returns THEN "except"
                   ELSE IF IsSelect(conn.query) THEN "fetchall"
                   ELSE "finally"]
    /\ UNCHANGED <<stmts, last, ops, live, run>>

\* return cursor.fetchall()
CursorFetchall(returns) ==
    /\ conn.pc = "fetchall"
    /\ conn' =
         [conn EXCEPT
            !.trace = Append(@, "fetchall"),
            !.pending = IF returns THEN Return("rows")
                        ELSE Raise("sqlite3.Error", "fetchall"),
            !.pc = IF returns THEN "finally" ELSE "except"]
    /\ UNCHANGED <<stmts, last, ops, live, run>>

\* except Exception as e: self.connection.rollback(); raise RuntimeError.
\* When rollback() raises, the raise statement is not reached and the
\* exception of rollback() leaves the handler.
ConnectionRollback(returns) ==
    /\ conn.pc = "except"
    /\ conn' =
         [conn EXCEPT
            !.trace = Append(@, "rollback"),
            !.pending = IF returns
                        THEN Raise("RuntimeError", "Error executing query")
                        ELSE Raise("sqlite3.Error", "rollback"),
            !.pc = "finally"]
    /\ UNCHANGED <<stmts, last, ops, live, run>>

\* finally: cursor.close(); then the call returns or raises what is pending
CursorClose ==
    /\ conn.pc = "finally"
    /\ conn' =
         [conn EXCEPT
            !.trace = Append(@, "close"),
            !.cursor = "closed",
            !.outcome = conn.pending,
            !.pc = "done"]
    /\ UNCHANGED <<stmts, last, ops, live, run>>

NextSQLite ==
    \/ SQLiteConnect
    \/ SQLiteDisconnect
    \/ \E sql \in SqlTexts, params \in Params : ExecuteQueryCursor(sql, params)
    \/ \E returns \in BOOLEAN : CursorExecute(returns)
    \/ \E returns \in BOOLEAN : CursorFetchall(returns)
    \/ \E returns \in BOOLEAN : ConnectionRollback(returns)
    \/ CursorClose

SpecSQLite == InitSQLite /\ [][NextSQLite]_vars

(***************************************************************************)
(* The structural invariants of a statement, stated on its attributes.     *)
(***************************************************************************)
components_of(q) == stmts[q].components
HasSelectSlot(q) == stmts[q].select_component # None
HasFromSlot(q) == stmts[q].from_component # None
Holds(q, K) == \E i \in 1..Len(components_of(q)) : components_of(q)[i].kind = K

SelectWithoutFrom(q) == HasSelectSlot(q) /\ ~HasFromSlot(q)
UpdateWithoutSet(q) == Holds(q, "Update") /\ ~Holds(q, "Set")
DeleteAndFrom(q) == Holds(q, "Delete") /\ HasFromSlot(q)
Violates(q) == SelectWithoutFrom(q) \/ UpdateWithoutSet(q) \/ DeleteAndFrom(q)

ValidationError(r) == r.exc = "ValueError"
Called(op) == last.op = op
CalledCheck == last.op \in {"validate", "parse"}

(***************************************************************************)
(* C1 (as stated): every statement that carries a Select, in the Select    *)
(* slot or among the appended components, and has no From fails validate() *)
(* and parse() with a validation error.                                    *)
(***************************************************************************)
C1_CarriesSelect(q) == HasSelectSlot(q) \/ Holds(q, "Select")

C1_AnySelectNeedsFrom ==
    \A q \in Stmt :
        (C1_CarriesSelect(q) /\ ~HasFromSlot(q))
            => /\ ValidationError(validate(stmts, q))
               /\ ValidationError(parse(stmts, q))

(***************************************************************************)
(* C1 (amended): every statement whose Select slot is set (set_select, the *)
(* builder's select) and whose From slot is not set fails validate() and   *)
(* parse() with the ValueError "SELECT query requires a FROM clause.",     *)
(* whatever else it holds; a Select that is only among the appended        *)
(* components, as select_with_subquery stores it, is not checked.          *)
(***************************************************************************)
C1_SelectSlotNeedsFrom ==
    /\ \A q \in Stmt :
          SelectWithoutFrom(q)
              => /\ validate(stmts, q) = Raise("ValueError", SelectRequiresFrom)
                 /\ parse(stmts, q) = Raise("ValueError", SelectRequiresFrom)
    /\ (CalledCheck /\ SelectWithoutFrom(last.target))
          => last.result = Raise("ValueError", SelectRequiresFrom)

C1_Witness ==
    /\ Called("parse")
    /\ SelectWithoutFrom(last.target)
    /\ components_of(last.target) # <<>>
    /\ ValidationError(last.result)

(***************************************************************************)
(* C2: a statement whose appended components hold an Update and no Set     *)
(* fails validate() and parse() with a validation error; once a Set is     *)
(* among its components, before or after the Update, the UPDATE/SET error  *)
(* can only come from a statement nested below it.                         *)
(***************************************************************************)
C2_UpdateNeedsSet ==
    /\ \A q \in Stmt :
          /\ UpdateWithoutSet(q)
                => /\ ValidationError(validate(stmts, q))
                   /\ ValidationError(parse(stmts, q))
          /\ (Holds(q, "Set")
              /\ \A i \in Below(stmts, q) : ~UpdateWithoutSet(i))
                => /\ validate(stmts, q).val # UpdateRequiresSet
                   /\ parse(stmts, q).val # UpdateRequiresSet
          /\ (Holds(q, "Update") /\ Holds(q, "Set") /\ ~HasSelectSlot(q)
              /\ ~HasFromSlot(q) /\ Inner(stmts, q) = {})
                => /\ ~Raised(validate(stmts, q))
                   /\ ~Raised(parse(stmts, q))
    /\ (CalledCheck /\ UpdateWithoutSet(last.target)) => ValidationError(last.result)

\* a statement whose Set comes before its Update has just been rendered
C2_Witness ==
    /\ Called("parse")
    /\ last.result = Return("SET name = 'John' UPDATE users")
    /\ \E i, j \in 1..Len(components_of(last.target)) :
          /\ i < j
          /\ components_of(last.target)[i].kind = "Set"
          /\ components_of(last.target)[j].kind = "Update"

(***************************************************************************)
(* C3: a statement with a Delete among its components and the From slot    *)
(* set fails validate() and parse() with a validation error; a statement   *)
(* that holds only a Delete renders as DELETE FROM <table>, and without a  *)
(* From slot the DELETE/FROM error can only come from a nested statement.  *)
(***************************************************************************)
C3_DeleteExcludesFrom ==
    /\ \A q \in Stmt :
          /\ DeleteAndFrom(q)
                => /\ ValidationError(validate(stmts, q))
                   /\ ValidationError(parse(stmts, q))
          /\ (DeleteAndFrom(q) /\ ~UpdateWithoutSet(q))
                => /\ validate(stmts, q) = Raise("ValueError", DeleteWithFrom)
                   /\ parse(stmts, q) = Raise("ValueError", DeleteWithFrom)
          /\ (~HasFromSlot(q) /\ ~HasSelectSlot(q)
              /\ components_of(q) = <<Delete("users")>>)
                => parse(stmts, q) = Return("DELETE FROM users")
          /\ (Holds(q, "Delete") /\ ~HasFromSlot(q)
              /\ \A i \in Below(stmts, q) : ~DeleteAndFrom(i))
                => /\ validate(stmts, q).val # DeleteWithFrom
                   /\ parse(stmts, q).val # DeleteWithFrom
    /\ (CalledCheck /\ DeleteAndFrom(last.target)) => ValidationError(last.result)

\* a statement with Delete and From has just failed to render
C3_Witness ==
    /\ Called("parse")
    /\ DeleteAndFrom(last.target)
    /\ last.result = Raise("ValueError", DeleteWithFrom)

(***************************************************************************)
(* C4: parse() returns no text for a statement that violates an invariant, *)
(* itself or in a statement nested below it through Subquery components:   *)
(* the outcome of parse() is then the error validate() raises.             *)
(***************************************************************************)
ViolatesDeep(q) == Violates(q) \/ \E i \in Below(stmts, q) : Violates(i)

C4_NoTextWhenInvalid ==
    /\ \A q \in Stmt :
          /\ ViolatesDeep(q)
                => /\ ValidationError(parse(stmts, q))
                   /\ parse(stmts, q).val
                        \in {SelectRequiresFrom, UpdateRequiresSet, DeleteWithFrom}
          /\ Raised(validate(stmts, q)) => parse(stmts, q) = validate(stmts, q)
    /\ (Called("parse") /\ ViolatesDeep(last.target))
          => /\ ValidationError(last.result)
             /\ last.result = validate(stmts, last.target)

\* parse() was called on a statement that is sound itself and whose
\* subquery violates an invariant
C4_Witness ==
    /\ Called("parse")
    /\ ~Violates(last.target)
    /\ \E i \in Inner(stmts, last.target) : Violates(i)
    /\ ValidationError(last.result)

(***************************************************************************)
(* C5: for a valid statement, parse() returns the text of the Select slot  *)
(* (if set), of the From slot (if set) and of the appended components in   *)
(* append order, in this order, with exactly one space between them; so    *)
(* select, from_table and where, called in any order, give                 *)
(* SELECT name, age FROM users WHERE age > 30.                             *)
(***************************************************************************)
RECURSIVE C5_Spaced(_, _, _)
C5_Spaced(frags, i, acc) ==
    IF i > Len(frags) THEN acc
    ELSE C5_Spaced(frags, i + 1, IF i = 1 THEN frags[1] ELSE acc \o " " \o frags[i])

C5_Fragments(q) ==
    LET self == stmts[q]
        a == IF HasSelectSlot(q) THEN 1 ELSE 0
        b == IF HasFromSlot(q) THEN 1 ELSE 0
    IN [i \in 1..(a + b + Len(self.components)) |->
           IF i = 1 /\ a = 1 THEN to_sql(stmts, self.select_component).val
           ELSE IF i = a + b /\ b = 1 THEN to_sql(stmts, self.from_component).val
           ELSE to_sql(stmts, self.components[i - a - b]).val]

C5_Scenario1(q) ==
    /\ stmts[q].select_component = Select(<<"name", "age">>)
    /\ stmts[q].from_component = From("users")
    /\ stmts[q].components = <<Where("age > 30")>>

C5_RenderOrder ==
    \A q \in Stmt :
        LET p == parse(stmts, q) IN
        ~Raised(validate(stmts, q))
            => /\ p = Return(C5_Spaced(C5_Fragments(q), 1, ""))
               /\ C5_Scenario1(q)
                    => p = Return("SELECT name, age FROM users WHERE age > 30")

C5_Witness == \E q \in Stmt : C5_Scenario1(q)

(***************************************************************************)
(* C6: two parse() calls in a row on a valid statement, with no other call *)
(* in between, return the same string, also when the statement holds       *)
(* Subquery components.                                                    *)
(***************************************************************************)
C6_RenderTwice ==
    (Called("parse") /\ last.prev # NoPrev /\ ~Raised(last.prev))
        => last.result = last.prev

\* the second of two parse() calls on a valid statement holding a Subquery
C6_Witness ==
    /\ Called("parse")
    /\ last.prev # NoPrev
    /\ ~Raised(last.prev)
    /\ Inner(stmts, last.target) # {}

(***************************************************************************)
(* C7: a validate() or parse() call, whether it returns or raises, leaves  *)
(* every statement as it was: Select slot, From slot, appended components  *)
(* and strategy, of the target and of all other statements.                *)
(***************************************************************************)
C7_ChecksDoNotMutate ==
    [][(ops' # ops /\ last'.op \in {"validate", "parse"}) => stmts' = stmts]_vars

\* a call has raised on a statement that holds components
C7_Witness ==
    /\ CalledCheck
    /\ Raised(last.result)
    /\ components_of(last.target) # <<>>
    /\ HasFromSlot(last.target)

(***************************************************************************)
(* C8: when a statement nested at depth 1 or deeper below q, through       *)
(* Subquery components, violates an invariant, validate() and parse() of q *)
(* fail with a validation error, the one of a violating statement of the   *)
(* tree.                                                                   *)
(***************************************************************************)
C8_OwnError(q) ==
    IF SelectWithoutFrom(q) THEN SelectRequiresFrom
    ELSE IF UpdateWithoutSet(q) THEN UpdateRequiresSet
    ELSE DeleteWithFrom

C8_TreeErrors(q) == {C8_OwnError(j) : j \in {j \in Below(stmts, q) \cup {q} : Violates(j)}}

C8_NestedInvalid ==
    /\ \A q \in Stmt :
          (\E i \in Below(stmts, q) : Violates(i))
              => /\ ValidationError(validate(stmts, q))
                 /\ ValidationError(parse(stmts, q))
                 /\ validate(stmts, q).val \in C8_TreeErrors(q)
                 /\ parse(stmts, q).val \in C8_TreeErrors(q)
    /\ (CalledCheck /\ \E i \in Below(stmts, last.target) : Violates(i))
          => ValidationError(last.result)

\* the violation is two levels down and the levels above it are sound
C8_Witness ==
    \E q, m, i \in Stmt :
        /\ m \in Inner(stmts, q)
        /\ i \in Inner(stmts, m)
        /\ Violates(i)
        /\ ~Violates(m)
        /\ ~Violates(q)
        /\ validate(stmts, q) = Raise("ValueError", C8_OwnError(i))

(***************************************************************************)
(* C9: for a valid statement q, Subquery(q).to_sql() is "(" + q.parse() +  *)
(* ")"; in a rendered statement every Subquery component contributes the   *)
(* inner statement's current text in one pair of parentheses, at each      *)
(* level of nesting.                                                       *)
(***************************************************************************)
C9_Fragment(c) ==
    IF c.kind = "Subquery" THEN "(" \o parse(stmts, c.query).val \o ")"
    ELSE component_to_sql(c)

C9_Text(q) ==
    LET full == full_components(stmts[q]) IN
    C5_Spaced([i \in 1..Len(full) |-> C9_Fragment(full[i])], 1, "")

C9_OnlySubquery(q, i) ==
    /\ ~HasSelectSlot(q)
    /\ ~HasFromSlot(q)
    /\ components_of(q) = <<Subquery(i)>>

C9_SubqueryRoundTrip ==
    \A q \in Stmt :
        LET p == parse(stmts, q) IN
        ~Raised(p)
            => /\ Subquery_to_sql(stmts, Subquery(q)) = Return("(" \o p.val \o ")")
               /\ p = Return(C9_Text(q))
               /\ \A m, i \in Stmt :
                     (C9_OnlySubquery(q, m) /\ C9_OnlySubquery(m, i))
                         => p = Return("((" \o parse(stmts, i).val \o "))")

C9_Witness ==
    /\ C9_OnlySubquery("q1", "q2")
    /\ C9_OnlySubquery("q2", "q3")
    /\ components_of("q3") = <<Delete("users")>>
    /\ parse(stmts, "q1") = Return("((DELETE FROM users))")

(***************************************************************************)
(* C10: a call that changes a statement i leaves the outcome of parse()    *)
(* unchanged for every other statement q to which the caller has not       *)
(* appended a Subquery chain leading to i; in particular for a q into      *)
(* which the builder's from_with_subquery or select_with_subquery has      *)
(* embedded i's text.                                                      *)
(***************************************************************************)
RECURSIVE C10_LiveReach(_, _)
C10_LiveReach(qs, n) ==
    IF n = 0 THEN qs
    ELSE C10_LiveReach(qs \cup {p[2] : p \in {p \in live : p[1] \in qs}}, n - 1)

C10_LiveBelow(q) == C10_LiveReach({q}, Cardinality(Stmt))

C10_EagerSnapshot ==
    [][\A q, i \in Stmt :
          (/\ stmts'[i] # stmts[i]
           /\ \A j \in Stmt \ {i} : stmts'[j] = stmts[j]
           /\ i \notin C10_LiveBelow(q))
              => parse(stmts', q) = parse(stmts, q)]_vars

\* the text embedded by from_with_subquery has outlived a change that made
\* the inner statement invalid
C10_Witness ==
    /\ stmts["q1"].from_component = From("(DELETE FROM users) AS sub_alias")
    /\ DeleteAndFrom("q2")
    /\ Raised(parse(stmts, "q2"))
    /\ parse(stmts, "q1") = Return("FROM (DELETE FROM users) AS sub_alias")

(***************************************************************************)
(* C11: from_with_subquery(inner, alias) with an inner statement that      *)
(* renders sets the From slot of the builder's statement to exactly        *)
(* "(<inner text>) AS <alias>", whatever From was there before, and leaves *)
(* the Select slot, the appended components and every other statement as   *)
(* they were; after select(['name', 'age']) alone the statement then       *)
(* renders "SELECT name, age FROM (<inner text>) AS <alias>".              *)
(***************************************************************************)
C11_FromWithSubquery ==
    \A b \in Builder, inner \in Stmt, alias \in Aliases :
        LET text == parse(stmts, inner)
            q == query[b]
            derived == "(" \o text.val \o ") AS " \o alias
            replaced == [stmts EXCEPT ![q].from_component = From(derived)]
        IN  ~Raised(text) =>
              /\ from_with_subquery(stmts, b, inner, alias) =
                    [result |-> Return(""), store |-> replaced]
              /\ (/\ stmts[q].select_component = Select(<<"name", "age">>)
                  /\ stmts[q].components = <<>>)
                     => parse(replaced, q) =
                           Return("SELECT name, age FROM " \o derived)

\* select(['name', 'age']) and from_with_subquery(q2, 'sub_alias') have run
\* on the builder, q2 holding a Delete
C11_Witness ==
    /\ Called("from_with_subquery")
    /\ ~Raised(last.result)
    /\ stmts["q1"].select_component = Select(<<"name", "age">>)
    /\ stmts["q1"].from_component = From("(DELETE FROM users) AS sub_alias")
    /\ parse(stmts, "q1") =
          Return("SELECT name, age FROM (DELETE FROM users) AS sub_alias")

(***************************************************************************)
(* C12: select_with_subquery(inner, alias) with an inner statement that    *)
(* renders appends the column "(<inner text>) AS <alias>" as a Select      *)
(* component and touches neither slot.  On a statement with neither slot   *)
(* set and nothing appended, parse() then returns "SELECT (<inner text>)   *)
(* AS <alias>"; on any statement that rendered before, the column comes    *)
(* last in the text, after the From fragment when a From is set.           *)
(***************************************************************************)
C12_SelectWithSubquery ==
    \A b \in Builder, alias \in Aliases :
      LET q == query[b]
          before == parse(stmts, q)
      IN
      \A inner \in Stmt :
        LET text == parse(stmts, inner)
            fragment == "(" \o text.val \o ") AS " \o alias
            appended == [stmts[q] EXCEPT
                           !.components = Append(@, Select(<<fragment>>))]
            after == parse([stmts EXCEPT ![q] = appended], q)
        IN  ~Raised(text) =>
              /\ select_with_subquery(stmts, b, inner, alias) =
                    [result |-> Return(""),
                     store |-> [stmts EXCEPT ![q] = appended]]
              /\ (/\ ~HasSelectSlot(q) /\ ~HasFromSlot(q)
                  /\ stmts[q].components = <<>>)
                     => after = Return("SELECT " \o fragment)
              /\ ~Raised(before) =>
                     after = Return(IF before.val = "" THEN "SELECT " \o fragment
                                    ELSE before.val \o " SELECT " \o fragment)
              /\ (/\ stmts[q].select_component = Select(<<"name", "age">>)
                  /\ stmts[q].from_component = From("users")
                  /\ stmts[q].components = <<>>)
                     => after = Return("SELECT name, age FROM users SELECT "
                                       \o fragment)

\* the call of tests/test_query_builder.py: q2 is SELECT * FROM users and
\* the builder has neither slot set
C12_Witness ==
    /\ Called("select_with_subquery")
    /\ ~Raised(last.result)
    /\ ~HasSelectSlot("q1") /\ ~HasFromSlot("q1")
    /\ parse(stmts, "q1") =
          Return("SELECT (SELECT * FROM users) AS sub_alias")

(***************************************************************************)
(* C17: no call removes a component or clears the From slot.  In every     *)
(* step the component list of every statement before the step is a prefix  *)
(* of the list after it and a From slot that was set is still set; so a    *)
(* statement that holds a Delete and a From keeps both, and validate() and *)
(* parse() raise a validation error on it after the step, whatever the     *)
(* step was.                                                               *)
(***************************************************************************)
C17_IsPrefix(s, t) == Len(s) <= Len(t) /\ SubSeq(t, 1, Len(s)) = s

C17_NothingRemoved ==
    [][\A q \in Stmt :
          /\ C17_IsPrefix(stmts[q].components, stmts'[q].components)
          /\ HasFromSlot(q) => stmts'[q].from_component # None
          /\ DeleteAndFrom(q) =>
                /\ any_isinstance(stmts'[q].components, "Delete")
                /\ ValidationError(validate(stmts', q))
                /\ ValidationError(parse(stmts', q))]_vars

\* a statement took a Delete, then a From, then one more component, and
\* still fails
C17_Witness ==
    \E q \in Stmt :
        /\ DeleteAndFrom(q)
        /\ components_of(q) = <<Delete("users"), Where("age > 30")>>
        /\ ValidationError(validate(stmts, q))
        /\ ValidationError(parse(stmts, q))

(***************************************************************************)
(* C18: when the inner statement handed to select_with_subquery or         *)
(* from_with_subquery does not render, the builder call raises the inner   *)
(* statement's own validation error and leaves every statement, the        *)
(* builder's included, exactly as it was: nothing is appended and the From *)
(* slot is not replaced.                                                   *)
(***************************************************************************)
C18_InvalidInnerRejected ==
    /\ \A b \in Builder, inner \in Stmt, alias \in Aliases :
          LET text == parse(stmts, inner) IN
          Raised(text) =>
            /\ ValidationError(text)
            /\ select_with_subquery(stmts, b, inner, alias) =
                  [result |-> text, store |-> stmts]
            /\ from_with_subquery(stmts, b, inner, alias) =
                  [result |-> text, store |-> stmts]
    /\ (last.op \in {"select_with_subquery", "from_with_subquery"}
          /\ Raised(last.result))
         => /\ ValidationError(last.result)
            /\ \E inner \in Stmt : parse(stmts, inner) = last.result

\* from_with_subquery has raised the error of an inner statement that has a
\* Select and no From, and the builder's statement is still empty
C18_Witness ==
    /\ Called("from_with_subquery")
    /\ last.result = Raise("ValueError", SelectRequiresFrom)
    /\ stmts["q1"] = NewSQLQuery("main_strategy")
    /\ SelectWithoutFrom("q2")

(***************************************************************************)
(* C13: in the execute() of querykit.py's DBExecutionStrategy the first    *)
(* call is connect(), made before the statement is rendered or run.  When  *)
(* connect() returned, the call ends with exactly one disconnect(), made   *)
(* after every other call, whether rendering raised a validation error,    *)
(* execute_query raised, or execute_query returned; the caller gets the    *)
(* validation error, the error of execute_query, or its results.  When     *)
(* connect() raised there is no disconnect().                              *)
(***************************************************************************)
C13_Calls(name) == {i \in 1..Len(run.trace) : run.trace[i].call = name}

C13_ScopedConnection ==
    run.variant = "simple" =>
      LET n == Len(run.trace)
          r == legacy_execute(stmts, run.target)
      IN
      /\ C13_Calls("connect") = {1}
      /\ \A i \in C13_Calls("render") \cup C13_Calls("execute_query") :
            i > 1 /\ ~Raised(run.trace[1].result)
      /\ run.pc # "done" => C13_Calls("disconnect") = {}
      /\ (run.pc = "done" /\ Raised(run.trace[1].result)) =>
            /\ n = 1
            /\ run.outcome = run.trace[1].result
      /\ (run.pc = "done" /\ ~Raised(run.trace[1].result)) =>
            /\ C13_Calls("disconnect") = {n}
            /\ C13_Calls("render") = {2}
            /\ IF Raised(r)
               THEN /\ n = 3
                    /\ run.outcome = r
               ELSE /\ n = 4
                    /\ run.trace[3].call = "execute_query"
                    /\ run.trace[3].query = r.val
                    /\ run.outcome = run.trace[3].result

\* execute_query raised on SELECT * FROM users and the connection was
\* closed before the error reached the caller
C13_Witness ==
    /\ run.variant = "simple"
    /\ run.pc = "done"
    /\ run.outcome = Raise("RuntimeError", "Error executing query")
    /\ [i \in 1..Len(run.trace) |-> run.trace[i].call] =
          <<"connect", "render", "execute_query", "disconnect">>
    /\ run.trace[3].query = "SELECT * FROM users"

(***************************************************************************)
(* C14: the execute(statement, params) of querykit/core's                  *)
(* DBExecutionStrategy renders the statement first.  When rendering raises *)
(* a validation error, that error goes to the caller and execute_query is  *)
(* never called; otherwise execute_query is called exactly once, with the  *)
(* rendered text and the params of the caller, and its outcome is the      *)
(* outcome of execute().  No connect() or disconnect() is made.            *)
(***************************************************************************)
C14_CallerOwnsConnection ==
    run.variant = "refined" =>
      LET n == Len(run.trace)
          r == parse(stmts, run.target)
      IN
      /\ C13_Calls("connect") = {} /\ C13_Calls("disconnect") = {}
      /\ C13_Calls("render") = {1}
      /\ run.trace[1].result = r
      /\ Raised(r) =>
            /\ run.pc = "done"
            /\ n = 1
            /\ ValidationError(run.outcome) /\ run.outcome = r
      /\ (~Raised(r) /\ run.pc = "done") =>
            /\ n = 2
            /\ run.trace[2] = Event("execute_query", r.val, run.params,
                                    run.outcome)
      /\ (~Raised(r) /\ run.pc # "done") => n = 1

\* SELECT * FROM users was executed with the params ('Alice',) and the rows
\* came back
C14_Witness ==
    /\ run.variant = "refined"
    /\ run.pc = "done"
    /\ run.params = <<"Alice">>
    /\ run.trace = <<Event("render", "", <<>>, Return("SELECT * FROM users")),
                     Event("execute_query", "SELECT * FROM users", <<"Alice">>,
                           Return("rows"))>>
    /\ run.outcome = Return("rows")

(***************************************************************************)
(* C15 (as stated): every execute_query call of SQLiteInterface that fails *)
(* after its cursor was opened on a connected interface raises             *)
(* RuntimeError, a rollback having been attempted, a failure of the        *)
(* rollback itself included, and the cursor of the call is closed.         *)
(***************************************************************************)
C15_EveryFailureTranslated ==
    (conn.pc = "done" /\ conn.trace # <<>> /\ Raised(conn.outcome)) =>
        /\ conn.outcome.exc = "RuntimeError"
        /\ \E i \in 1..Len(conn.trace) : conn.trace[i] = "rollback"
        /\ conn.cursor = "closed"
        /\ conn.trace[Len(conn.trace)] = "close"

(***************************************************************************)
(* C16: validate() looks at the statement as it is when parse() is called, *)
(* and a parse() that raised leaves nothing behind.  A statement whose     *)
(* last parse() raised for a Select without From renders once set_from has *)
(* been called, and one whose last parse() raised for an Update without    *)
(* Set renders once a Set has been appended, the statement having no other *)
(* violation; a statement whose last parse() returned raises a validation  *)
(* error once it holds a Delete and a From.                                *)
(***************************************************************************)
C16_RecheckedOnEveryCall ==
    last.op = "parse" =>
      LET q == last.target IN
      /\ last.result = parse(stmts, q)
      /\ (/\ last.prev = Raise("ValueError", SelectRequiresFrom)
          /\ HasFromSlot(q)
          /\ ~UpdateWithoutSet(q) /\ ~Holds(q, "Delete"))
            => ~Raised(last.result)
      /\ (/\ last.prev = Raise("ValueError", UpdateRequiresSet)
          /\ Holds(q, "Set")
          /\ ~SelectWithoutFrom(q) /\ ~DeleteAndFrom(q))
            => ~Raised(last.result)
      /\ (/\ ~Raised(last.prev)
          /\ DeleteAndFrom(q))
            => ValidationError(last.result)

\* parse() raised on a statement with a Select and no From, set_from was
\* called, and parse() then returned the text
C16_Witness ==
    /\ last.op = "parse"
    /\ last.prev = Raise("ValueError", SelectRequiresFrom)
    /\ last.result = Return("SELECT * FROM users")

====
